---------------------------- MODULE Spec2Model ----------------------------
(***************************************************************************)
(* A model of the colour-separation program (src/source/separations.rs):   *)
(* the main thread from argument parsing to the writing of the 3D LUT      *)
(* files, and the pool workers of the grid-mapping phase; and of the       *)
(* scalar multiplications of Vector3 (src/source/vector.rs).               *)
(*                                                                         *)
(* Numbers.  An f32 is modelled as a pair <<n, d>> read as n / d with the  *)
(* IEEE results of a division by zero: <<0, 0>> is NaN and <<1, 0>> is     *)
(* +infinity.  Rounding of finite values is not modelled.  A usize is an   *)
(* integer modulo 2^UsizeBits; a debug build panics where a release build  *)
(* wraps.                                                                  *)
(*                                                                         *)
(* Colours.  The ICC transforms and the R-tree are external libraries.  A  *)
(* colour is a record that names how it was computed (kind, idx, comps)    *)
(* and counts the transforms applied to it (rev: to XYZ, fwd: from XYZ).   *)
(***************************************************************************)
EXTENDS Integers, Sequences, FiniteSets, TLC

\* ------------------------------------------------------------------ bounds

\* Width of a usize in the model (64 in the program).
UsizeBits == 4

\* The largest number of --color options.
MaxPrimaries == 2

\* The largest --size.
MaxSize == 2

\* The largest --target below the largest usize (which is always tried).
MaxTarget == 5

\* The largest worker count num_cpus::get() returns.
MaxThreads == 2

\* The finite --limit values tried are k/2 for k in 0..MaxLimitHalves.
MaxLimitHalves == 2

\* The longest grid and the largest pool of the slicing runs (SpecSlices).
MaxGrid == 9

MaxPool == 4

UsizeModulus == 2 ^ UsizeBits

UsizeMax == UsizeModulus - 1

\* ---------------------------------------------------------------- defaults

SIZE_DEFAULT == 64

TARGET_DEFAULT == 100000000

\* ------------------------------------------------------------------ floats

NaN == <<0, 0>>

INFINITY == <<1, 0>>

IsNaN(x) == x[1] = 0 /\ x[2] = 0

\* a as f32 / b as f32
FDiv(a, b) == <<a, b>>

\* a + b
FAdd(a, b) ==
    IF IsNaN(a) \/ IsNaN(b) THEN NaN
    ELSE IF a[2] = b[2] THEN <<a[1] + b[1], a[2]>>
    ELSE <<a[1] * b[2] + b[1] * a[2], a[2] * b[2]>>

\* a > b: false when either side is NaN
FGt(a, b) == ~IsNaN(a) /\ ~IsNaN(b) /\ a[1] * b[2] > b[1] * a[2]

\* a < b
FLt(a, b) == FGt(b, a)

\* a == b
FEq(a, b) == ~IsNaN(a) /\ ~IsNaN(b) /\ a[1] * b[2] = b[1] * a[2]

Abs(x) == IF x < 0 THEN -x ELSE x

INKLIMIT_DEFAULT == INFINITY

\* ----------------------------------------------------------------- colours

Color(kind, idx, comps) ==
    [kind |-> kind, idx |-> idx, comps |-> comps, rev |-> 0, fwd |-> 0]

\* transformation_reverse.transform_in_place
TransformReverse(colors) ==
    [k \in DOMAIN colors |-> [colors[k] EXCEPT !.rev = @ + 1]]

\* transformation_forward.transform_in_place
TransformForward(colors) ==
    [k \in DOMAIN colors |-> [colors[k] EXCEPT !.fwd = @ + 1]]

\* ---------------------------------------------------------------- variables

VARIABLES
    pc,                 \* position of the main thread
    cause,              \* why the run failed ("" while it has not)
    profile,            \* "None", or "Some" once --profile is parsed
    path_output,        \* "None", or "Some" once --output is parsed
    argument,           \* the argument the last iteration of the loop matched
    taken,              \* what argument_next returned to that iteration
    nprim,              \* primaries.len() as parsed
    size,
    target,
    inklimit,
    count_colors_lut,
    resolution,
    count_secondaries,
    files,              \* the output files, in the order of outputs
    primaries,
    colors_lut,
    white,
    secondaries,
    rtree,
    count_threads,
    spawned,            \* iterations of the execute loop done
    workers,            \* the jobs of the pool, by index_thread + 1
    results,            \* the vector behind arc_results
    lock,               \* holder of the mutex (0: free)
    outputs,            \* the colour vectors of outputs
    scalar,             \* an f32 and
    vector,             \* a Vector3 given to the scalar multiplications
    product_sv,         \* scalar * vector (<<>> until computed)
    product_vs          \* vector * scalar (<<>> until computed)

vars == <<pc, cause, profile, path_output, argument, taken, nprim, size, target, inklimit, count_colors_lut,
          resolution, count_secondaries, files, primaries, colors_lut,
          white, secondaries, rtree, count_threads, spawned, workers,
          results, lock, outputs, scalar, vector, product_sv, product_vs>>

command_line == <<profile, path_output, argument, taken>>

vectors == <<scalar, vector, product_sv, product_vs>>

setup == <<nprim, size, target, inklimit, command_line, vectors>>

counts == <<count_colors_lut, resolution, count_secondaries>>

colors == <<primaries, colors_lut, white>>

pool == <<count_threads, spawned, workers, results, lock>>


\* ------------------------------------------------------------------ inputs

\* The --target values of the runs: the small ones and the largest usize.
Targets == (1 .. MaxTarget) \cup {UsizeMax}

\* The --limit values of the runs, and the default when none is given.
InkLimits == {FDiv(k, 2) : k \in 0 .. MaxLimitHalves} \cup {INFINITY}

\* A worker of the pool that has not been handed its job.
NoWorker == [wpc |-> "none", start |-> 0, end |-> 0, looked |-> <<>>, result |-> <<>>]

\* No scalar multiplication is followed.
NoVectors ==
    /\ scalar = FDiv(0, 1)
    /\ vector = <<>>
    /\ product_sv = <<>>
    /\ product_vs = <<>>

\* lines 61-66: the locals of main before the argument loop
Init ==
    /\ NoVectors
    /\ pc = "parse"
    /\ cause = ""
    /\ profile = "None"
    /\ path_output = "None"
    /\ argument = ""
    /\ taken = <<>>
    /\ nprim = 0
    /\ size = SIZE_DEFAULT
    /\ target = TARGET_DEFAULT
    /\ inklimit = INKLIMIT_DEFAULT
    /\ count_colors_lut = 0
    /\ resolution = 0
    /\ count_secondaries = 0
    /\ files = <<>>
    /\ primaries = <<>>
    /\ colors_lut = <<>>
    /\ white = Color("none", 0, <<>>)
    /\ secondaries = <<>>
    /\ rtree = <<>>
    /\ count_threads = 0
    /\ spawned = 0
    /\ workers = <<>>
    /\ results = <<>>
    /\ lock = 0
    /\ outputs = <<>>

\* errorout, or a panic of the main thread
Fail(why) ==
    /\ pc' = "failed"
    /\ cause' = why

\* -------------------------------------------------------- argument parsing

\* The checks of the argument loop and the mandatory-argument checks on the
\* values a run gives.
ArgumentsValid(n, s, t, l, complete) ==
    /\ complete
    /\ n >= 1
    /\ s >= 2
    /\ t >= 1
    /\ ~FLt(l, FDiv(0, 1))

\* The argument loop and the mandatory-argument checks as one step, for the
\* runs that go on to the phases after it: every such run gives --size and
\* --target (the defaults are far above the bounds).  info: a version or
\* help option is parsed before any error is met; complete: the profile and
\* the output path are given, every option has its arguments and is known.
\* The loop itself, iteration by iteration, is ParseOption below.
ParseArguments ==
    /\ pc = "parse"
    /\ \E info \in BOOLEAN, complete \in BOOLEAN, n \in 0 .. MaxPrimaries,
          s \in 1 .. MaxSize, t \in {0} \cup Targets,
          l \in InkLimits \cup {FDiv(-1, 2)} :
          \/ /\ info
             /\ pc' = "exit"
             /\ UNCHANGED <<cause, setup, primaries>>
          \/ /\ ~info
             /\ ~ArgumentsValid(n, s, t, l, complete)
             /\ Fail("arguments")
             /\ UNCHANGED <<setup, primaries>>
          \/ /\ ~info
             /\ ArgumentsValid(n, s, t, l, complete)
             /\ pc' = "counts"
             /\ nprim' = n
             /\ size' = s
             /\ target' = t
             /\ inklimit' = l
             /\ primaries' = [i \in 1 .. n |-> Color("component255", i, <<>>)]
             /\ profile' = "Some"
             /\ path_output' = "Some"
             /\ UNCHANGED <<cause, argument, taken, vectors>>
    /\ UNCHANGED <<counts, files, colors_lut, white, secondaries, rtree,
                   pool, outputs>>

\* ------------------------------------------------------- the argument loop

\* The arguments a command line of the runs is made of.
Tokens ==
    {"-v", "-V", "-p", "-o", "-c", "-s", "-t", "-l", "-x",
     "sRGB", "0", "2", "-1"}

\* argument.to_ascii_lowercase() (line 84)
ToAsciiLowercase(token) == IF token = "-V" THEN "-v" ELSE token

\* str::parse::<usize>: digits only; a sign makes "-1" an error
ParseUsize(token) ==
    IF token = "0" THEN [ok |-> TRUE, value |-> 0]
    ELSE IF token = "2" THEN [ok |-> TRUE, value |-> 2]
    ELSE [ok |-> FALSE, value |-> 0]

\* str::parse::<f32>: the decimal numbers, signed or not
ParseF32(token) ==
    IF token = "-1" THEN [ok |-> TRUE, value |-> FDiv(-1, 1)]
    ELSE IF ParseUsize(token).ok
         THEN [ok |-> TRUE, value |-> FDiv(ParseUsize(token).value, 1)]
    ELSE [ok |-> FALSE, value |-> NaN]

\* The match of lines 98-124 yields a profile: sRGB, a named profile, or a
\* readable file that holds an RGB profile.  No argument of the runs names
\* a readable file.
ProfileAccepted(identifier) == identifier = "sRGB"

\* What argument_next can return to an iteration that asks for n arguments
\* and stops at the first it rejects: every argument before the last was
\* accepted.  A sequence shorter than n whose last is accepted is a command
\* line that ends there.
RECURSIVE Taken(_, _)
Taken(n, accepted) ==
    IF n = 0 THEN {<<>>}
    ELSE {<<>>} \cup {<<x>> : x \in Tokens}
         \cup {<<x>> \o tk : x \in accepted, tk \in Taken(n - 1, accepted) \ {<<>>}}

\* The n arguments were there and every one was accepted.
AllAccepted(tk, n, accepted) == Len(tk) = n /\ tk[n] \in accepted

\* lines 86-94: the version and help arms print and return
ParseInfo(a) ==
    /\ ToAsciiLowercase(a) \in {"-v", "--version", "-h", "--help", "-?"}
    /\ argument' = a
    /\ taken' = <<>>
    /\ pc' = "exit"
    /\ UNCHANGED <<cause, profile, path_output, nprim, size, target,
                   inklimit, primaries>>

\* lines 97-125
ParseProfile(a) ==
    /\ ToAsciiLowercase(a) \in {"-p", "--profile"}
    /\ \E tk \in Taken(1, {x \in Tokens : ProfileAccepted(x)}) :
          /\ argument' = a
          /\ taken' = tk
          /\ IF AllAccepted(tk, 1, {x \in Tokens : ProfileAccepted(x)})
             THEN /\ profile' = "Some"
                  /\ UNCHANGED <<pc, cause>>
             ELSE /\ Fail("arguments")
                  /\ UNCHANGED profile
    /\ UNCHANGED <<path_output, nprim, size, target, inklimit, primaries>>

\* Any argument is a path.
PathAccepted(path) == TRUE

\* lines 127-129
ParseOutput(a) ==
    /\ ToAsciiLowercase(a) \in {"-o", "--output"}
    /\ \E tk \in Taken(1, {x \in Tokens : PathAccepted(x)}) :
          /\ argument' = a
          /\ taken' = tk
          /\ IF AllAccepted(tk, 1, {x \in Tokens : PathAccepted(x)})
             THEN /\ path_output' = "Some"
                  /\ UNCHANGED <<pc, cause>>
             ELSE /\ Fail("arguments")
                  /\ UNCHANGED path_output
    /\ UNCHANGED <<profile, nprim, size, target, inklimit, primaries>>

\* parse_component (lines 133-137) returns
ComponentAccepted(component) == ParseF32(component).ok

\* lines 131-144; the components are parsed in order as they are taken
ParseColor(a) ==
    /\ ToAsciiLowercase(a) \in {"-c", "--color"}
    /\ \E tk \in Taken(3, {x \in Tokens : ComponentAccepted(x)}) :
          /\ argument' = a
          /\ taken' = tk
          /\ IF AllAccepted(tk, 3, {x \in Tokens : ComponentAccepted(x)})
             THEN /\ nprim < MaxPrimaries
                  /\ nprim' = nprim + 1
                  /\ primaries' =
                         Append(primaries, Color("component255", nprim + 1, <<>>))
                  /\ UNCHANGED <<pc, cause>>
             ELSE /\ Fail("arguments")
                  /\ UNCHANGED <<nprim, primaries>>
    /\ UNCHANGED <<profile, path_output, size, target, inklimit>>

\* Mutant: the size is not compared with 2.
SizeAcceptedAnyNumber(token) == ParseUsize(token).ok

\* lines 148-154 go through
SizeAccepted(token) == ParseUsize(token).ok /\ ~(ParseUsize(token).value < 2)

\* lines 147-155
ParseSize(a) ==
    /\ ToAsciiLowercase(a) \in {"-s", "--size"}
    /\ \E tk \in Taken(1, {x \in Tokens : SizeAccepted(x)}) :
          /\ argument' = a
          /\ taken' = tk
          /\ IF AllAccepted(tk, 1, {x \in Tokens : SizeAccepted(x)})
             THEN /\ size' = ParseUsize(tk[1]).value
                  /\ UNCHANGED <<pc, cause>>
             ELSE /\ Fail("arguments")
                  /\ UNCHANGED size
    /\ UNCHANGED <<profile, path_output, nprim, target, inklimit, primaries>>

\* lines 158-164 go through
TargetAccepted(token) == ParseUsize(token).ok /\ ~(ParseUsize(token).value < 1)

\* lines 157-165
ParseTarget(a) ==
    /\ ToAsciiLowercase(a) \in {"-t", "--target"}
    /\ \E tk \in Taken(1, {x \in Tokens : TargetAccepted(x)}) :
          /\ argument' = a
          /\ taken' = tk
          /\ IF AllAccepted(tk, 1, {x \in Tokens : TargetAccepted(x)})
             THEN /\ target' = ParseUsize(tk[1]).value
                  /\ UNCHANGED <<pc, cause>>
             ELSE /\ Fail("arguments")
                  /\ UNCHANGED target
    /\ UNCHANGED <<profile, path_output, nprim, size, inklimit, primaries>>

\* lines 168-174 go through
LimitAccepted(token) ==
    ParseF32(token).ok /\ ~FLt(ParseF32(token).value, FDiv(0, 1))

\* lines 167-175
ParseLimit(a) ==
    /\ ToAsciiLowercase(a) \in {"-l", "--limit"}
    /\ \E tk \in Taken(1, {x \in Tokens : LimitAccepted(x)}) :
          /\ argument' = a
          /\ taken' = tk
          /\ IF AllAccepted(tk, 1, {x \in Tokens : LimitAccepted(x)})
             THEN /\ inklimit' = ParseF32(tk[1]).value
                  /\ UNCHANGED <<pc, cause>>
             ELSE /\ Fail("arguments")
                  /\ UNCHANGED inklimit
    /\ UNCHANGED <<profile, path_output, nprim, size, target, primaries>>

\* The patterns of the arms of the match of line 84.
Options ==
    {"-v", "--version", "-h", "--help", "-?", "-p", "--profile", "-o",
     "--output", "-c", "--color", "-s", "--size", "-t", "--target", "-l",
     "--limit"}

\* lines 178-180
ParseUnknown(a) ==
    /\ ToAsciiLowercase(a) \notin Options
    /\ argument' = a
    /\ taken' = <<>>
    /\ Fail("arguments")
    /\ UNCHANGED <<profile, path_output, nprim, size, target, inklimit,
                   primaries>>

\* One iteration of the loop of lines 75-182, on the next argument a.
ParseOption ==
    /\ pc = "parse"
    /\ \E a \in Tokens :
          \/ ParseInfo(a)
          \/ ParseProfile(a)
          \/ ParseOutput(a)
          \/ ParseColor(a)
          \/ ParseSize(a)
          \/ ParseTarget(a)
          \/ ParseLimit(a)
          \/ ParseUnknown(a)
    /\ UNCHANGED <<counts, files, colors_lut, white, secondaries, rtree,
                   pool, outputs, vectors>>

\* The checks of lines 185-193 go through.
MandatoryGiven == profile # "None" /\ path_output # "None" /\ nprim # 0

\* The command line ends (line 75) and the mandatory arguments are checked
\* (lines 185-193).
CheckMandatory ==
    /\ pc = "parse"
    /\ IF MandatoryGiven
       THEN /\ pc' = "counts"
            /\ UNCHANGED cause
       ELSE Fail("arguments")
    /\ UNCHANGED <<setup, counts, files, colors, secondaries, rtree, pool,
                   outputs>>

\* ------------------------------------------------------------------ counts

RECURSIVE RootFrom(_, _, _)
\* The least r >= from with r^n >= t.
RootFrom(t, n, from) == IF from ^ n >= t THEN from ELSE RootFrom(t, n, from + 1)

\* Where f64 arithmetic puts the root above the exact one: 1.0 / 5.0 rounds
\* up to 0.2000000000000000111, and the fifth root of k^5 comes out as the
\* double next above k for k >= 5 (3125f64.powf(0.2) is 5.000000000000001,
\* so the resolution of 5 primaries and target 3125 is 6).  1/1, 1/2 and 1/4
\* are exact, 1/3 and 1/6 round down, and no other target below 200 000
\* with at most 12 primaries is affected.
PowfOvershoots(t, n) == n = 5 /\ \E k \in 5 .. t : k ^ 5 = t

\* (target as f64).powf(1.0 / primaries.len() as f64).ceil() as usize
PowfCeil(t, n) ==
    RootFrom(t, n, 1) + (IF PowfOvershoots(t, n) THEN 1 ELSE 0)

\* base.pow(exp) of a release build
WrappingPow(base, exp) == (base ^ exp) % UsizeModulus

\* base.pow(exp) overflows a usize
PowOverflows(base, exp) == base ^ exp > UsizeMax

\* lines 196-198; a build with overflow checks panics where the other wraps
ComputeCounts ==
    /\ pc = "counts"
    /\ LET r == PowfCeil(target, nprim)
           overflows == PowOverflows(size, 3) \/ PowOverflows(r, nprim)
       IN \/ /\ overflows
             /\ Fail("overflow")
             /\ UNCHANGED counts
          \/ /\ pc' = "transforms"
             /\ count_colors_lut' = WrappingPow(size, 3)
             /\ resolution' = r
             /\ count_secondaries' = WrappingPow(r, nprim)
             /\ UNCHANGED cause
    /\ UNCHANGED <<setup, files, colors, secondaries, rtree, pool, outputs>>

\* lines 201-215: Transform::new(..).unwrap(), twice
PrepareTransforms ==
    /\ pc = "transforms"
    /\ \/ Fail("transform")
       \/ /\ pc' = "create"
          /\ UNCHANGED cause
    /\ UNCHANGED <<setup, counts, files, colors, secondaries, rtree, pool,
                   outputs>>

\* ------------------------------------------------------------ output files

\* 1 + 2 * primaries.len()
CountOutputs(n) == 1 + 2 * n

\* new_output and outputs.push: File::create of the next output file; the
\* first one follows path_output.file_stem().unwrap()
CreateOutput ==
    /\ pc = "create"
    /\ \/ /\ files = <<>>
          /\ Fail("file_stem")
          /\ UNCHANGED <<files, outputs>>
       \/ /\ Fail("create")
          /\ UNCHANGED <<files, outputs>>
       \/ /\ files' = Append(files, "created")
          /\ outputs' = Append(outputs, <<>>)
          /\ pc' = IF Len(files') = CountOutputs(nprim) THEN "normalize"
                   ELSE "create"
          /\ UNCHANGED cause
    /\ UNCHANGED <<setup, counts, colors, secondaries, rtree, pool>>

\* ----------------------------------------------------------------- colours

\* lines 253-255: *primary /= 255.0
NormalizePrimaries ==
    /\ pc = "normalize"
    /\ primaries' = [i \in DOMAIN primaries |->
                        [primaries[i] EXCEPT !.kind = "primary"]]
    /\ pc' = "grid"
    /\ UNCHANGED <<cause, setup, counts, files, colors_lut, white,
                   secondaries, rtree, pool, outputs>>

\* The colour pushed by the k-th iteration (from 0) of the loops of lines
\* 259-271: blue outermost, then green, then red.
GridColor(k, s) ==
    Color("grid", 0, <<FDiv((k % s) % s, s - 1),
                       FDiv(((k \div s) % s) % s, s - 1),
                       FDiv((k \div (s * s)) % s, s - 1)>>)

\* lines 258-271
GenerateGrid ==
    /\ pc = "grid"
    /\ colors_lut' = [k \in 1 .. size * size * size |-> GridColor(k - 1, size)]
    /\ pc' = "reverse"
    /\ UNCHANGED <<cause, setup, counts, files, primaries, white,
                   secondaries, rtree, pool, outputs>>

\* lines 273-280
MoveToXYZ ==
    /\ pc = "reverse"
    /\ primaries' = TransformReverse(primaries)
    /\ white' = TransformReverse(<<Color("white", 0, <<>>)>>)[1]
    /\ colors_lut' = TransformReverse(colors_lut)
    /\ pc' = "secondaries"
    /\ UNCHANGED <<cause, setup, counts, files, secondaries, rtree, pool,
                   outputs>>

\* ------------------------------------------------------ candidate generation

\* Mutant: >= in the place of >.
ViolatesInkLimitOrReaches(total, limit) == FGt(total, limit) \/ FEq(total, limit)

\* Mutant: the check of the ink limit left out.
ViolatesInkLimitNever(total, limit) == FALSE

\* total > inklimit (line 300)
ViolatesInkLimit(total, limit) == FGt(total, limit)

\* (number % resolution) as f32 / (resolution - 1) as f32 (line 294)
Fraction(number, r) == FDiv(number % r, r - 1)

\* The colour the multiplications of line 304 leave in secondary: white
\* times, for each primary in order, the blend of that primary at its
\* fraction over white.
MixColor(components) == Color("mix", 0, components)

RECURSIVE MixFrom(_, _, _, _, _, _, _)
\* The loop over the primaries (lines 293-309) from primary i on: <<>> when
\* the mixture is abandoned, the one candidate pushed at line 311 otherwise.
MixFrom(i, n, number, r, limit, total, components) ==
    IF i > n
    THEN <<[secondary |-> MixColor(components), components |-> components]>>
    ELSE LET fraction == Fraction(number, r)
             total_next == FAdd(total, fraction)
         IN IF ViolatesInkLimit(total_next, limit)
            THEN <<>>
            ELSE MixFrom(i + 1, n, number \div r, r, limit, total_next,
                         Append(components, fraction))

\* One iteration of the loop labelled 'secondaries.
Secondary(number, n, r, limit) ==
    MixFrom(1, n, number, r, limit, FDiv(0, 1), <<>>)

\* The vector the loop of lines 287-312 builds for number in 0..count.
Secondaries(count, n, r, limit) ==
    LET each == [k \in 1 .. count |-> Secondary(k - 1, n, r, limit)]
        kept == SelectSeq([k \in 1 .. count |-> k], LAMBDA k : each[k] # <<>>)
    IN [j \in 1 .. Len(kept) |-> each[kept[j]][1]]

\* lines 287-312
GenerateSecondaries ==
    /\ pc = "secondaries"
    /\ secondaries' = Secondaries(count_secondaries, nprim, resolution, inklimit)
    /\ pc' = "bulk_load"
    /\ UNCHANGED <<cause, setup, counts, files, colors, rtree, pool, outputs>>

\* lines 315-323: the R-tree takes the candidates; the pool and the shared
\* result table are made
BulkLoad ==
    /\ pc = "bulk_load"
    /\ rtree' = secondaries
    /\ secondaries' = <<>>
    /\ \E cpus \in 1 .. MaxThreads :
          /\ count_threads' = cpus
          /\ workers' = [t \in 1 .. cpus |-> NoWorker]
          /\ results' = [t \in 1 .. cpus |-> <<>>]
    /\ pc' = "execute"
    /\ UNCHANGED <<cause, setup, counts, files, colors, spawned, lock, outputs>>

\* -------------------------------------------------------------- the R-tree

\* Sum of the numerators of a sequence of fractions.
RECURSIVE SumNumerators(_)
SumNumerators(fs) ==
    IF fs = <<>> THEN 0 ELSE Head(fs)[1] + SumNumerators(Tail(fs))

\* The distance of a candidate from a grid colour, up to a factor that is
\* the same for every candidate of a run.  The comparison space is external
\* (it is the profile's); the model reduces it to one axis, on which a grid
\* colour lies at its mean component and a candidate at one minus its mean
\* fraction (ink darkens).
Distance(candidate, color) ==
    LET ink == SumNumerators(candidate.components)
        inkmax == Len(candidate.components) * candidate.components[1][2]
        light == SumNumerators(color.comps)
        lightmax == 3 * color.comps[1][2]
    IN Abs((inkmax - ink) * lightmax - light * inkmax)

\* rtree.nearest_neighbor(&color_lut): 0 for None, else the index of the
\* nearest candidate; of several at the least distance, the first loaded.
NearestNeighbor(tree, color) ==
    IF tree = <<>> THEN 0
    ELSE LET distances == [j \in 1 .. Len(tree) |-> Distance(tree[j], color)]
             all == {distances[j] : j \in 1 .. Len(tree)}
             least == CHOOSE d \in all : \A e \in all : d <= e
         IN CHOOSE i \in 1 .. Len(tree) :
               /\ distances[i] = least
               /\ \A j \in 1 .. i - 1 : distances[j] # least

\* -------------------------------------------------------------- the workers

\* index_thread * colors_lut.len() / count_threads (line 332)
SliceStart(index_thread, len, threads) == (index_thread * len) \div threads

\* Mutant: the division done before the multiplication.
SliceEndDividedFirst(index_thread, len, threads) ==
    (index_thread + 1) * (len \div threads)

\* (index_thread + 1) * colors_lut.len() / count_threads (line 333)
SliceEnd(index_thread, len, threads) == ((index_thread + 1) * len) \div threads

\* fraction * primary + (1.0 - fraction) * white (line 351), of the primary
\* at index_primary (from 0)
BlendColor(fraction, index_primary) ==
    Color("blend", index_primary, <<fraction>>)

\* Vector3([fraction, fraction, fraction]) (line 354)
MaskColor(fraction) == Color("mask", 0, <<fraction, fraction, fraction>>)

\* Mutant: the fraction of the first primary taken for every primary.
PushedFirstFraction(data_secondary, output) ==
    IF output = 0 THEN data_secondary.secondary
    ELSE LET index_primary == (output - 1) \div 2
             fraction == data_secondary.components[1]
         IN IF output = 2 * index_primary + 1
            THEN BlendColor(fraction, index_primary)
            ELSE MaskColor(fraction)

\* What one iteration of the loop of lines 338-356 pushes on result[output]
\* (output from 0) for the candidate data_secondary.
Pushed(data_secondary, output) ==
    IF output = 0 THEN data_secondary.secondary
    ELSE LET index_primary == (output - 1) \div 2
             fraction == data_secondary.components[index_primary + 1]
         IN IF output = 2 * index_primary + 1
            THEN BlendColor(fraction, index_primary)
            ELSE MaskColor(fraction)

\* result when the loop of lines 338-356 has run over start..end
MapSlice(tree, lut, start, end, n) ==
    LET data_secondary == [k \in 1 .. end - start |->
                              tree[NearestNeighbor(tree, lut[start + k])]]
    IN [c \in 1 .. CountOutputs(n) |->
           [k \in 1 .. end - start |-> Pushed(data_secondary[k], c - 1)]]

\* threadpool.execute of one iteration of the loop of line 325
Execute ==
    /\ pc = "execute"
    /\ spawned' = spawned + 1
    /\ workers' = [workers EXCEPT ![spawned + 1].wpc = "queued"]
    /\ pc' = IF spawned' = count_threads THEN "join" ELSE "execute"
    /\ UNCHANGED <<cause, setup, counts, files, colors, secondaries, rtree,
                   count_threads, results, lock, outputs>>

\* Mutant: the panic of a job brings the whole run down.
WorkerMapFatal(t) ==
    /\ t \in DOMAIN workers
    /\ workers[t].wpc = "queued"
    /\ LET start == SliceStart(t - 1, Len(colors_lut), count_threads)
           end == SliceEnd(t - 1, Len(colors_lut), count_threads)
       IN IF start < end /\ NearestNeighbor(rtree, colors_lut[start + 1]) = 0
          THEN /\ Fail("lookup")
               /\ UNCHANGED workers
          ELSE /\ workers' = [workers EXCEPT ![t] =
                      [wpc |-> "mapped", start |-> start, end |-> end,
                       looked |-> [k \in 1 .. end - start |-> start + k - 1],
                       result |-> MapSlice(rtree, colors_lut, start, end, nprim)]]
               /\ UNCHANGED <<pc, cause>>
    /\ UNCHANGED <<setup, counts, files, colors, secondaries, rtree,
                   count_threads, spawned, results, lock, outputs>>

\* lines 332-356 of the job of worker t (index_thread = t - 1): the slice
\* and the loop over it.  On an empty tree the first lookup returns None
\* and the unwrap of line 341 panics the job.
WorkerMap(t) ==
    /\ t \in DOMAIN workers
    /\ workers[t].wpc = "queued"
    /\ LET start == SliceStart(t - 1, Len(colors_lut), count_threads)
           end == SliceEnd(t - 1, Len(colors_lut), count_threads)
       IN IF start < end /\ NearestNeighbor(rtree, colors_lut[start + 1]) = 0
          THEN workers' = [workers EXCEPT ![t] =
                   [wpc |-> "panicked", start |-> start, end |-> end,
                    looked |-> <<start>>, result |-> <<>>]]
          ELSE workers' = [workers EXCEPT ![t] =
                   [wpc |-> "mapped", start |-> start, end |-> end,
                    looked |-> [k \in 1 .. end - start |-> start + k - 1],
                    result |-> MapSlice(rtree, colors_lut, start, end, nprim)]]
    /\ UNCHANGED <<pc, cause, setup, counts, files, colors, secondaries,
                   rtree, count_threads, spawned, results, lock, outputs>>

\* results.lock().unwrap() (line 358)
WorkerLock(t) ==
    /\ t \in DOMAIN workers
    /\ workers[t].wpc = "mapped"
    /\ lock = 0
    /\ lock' = t
    /\ workers' = [workers EXCEPT ![t].wpc = "locked"]
    /\ UNCHANGED <<pc, cause, setup, counts, files, colors, secondaries,
                   rtree, count_threads, spawned, results, outputs>>

\* results[index_thread] = result (line 359); the guard is dropped as the
\* job ends (line 360)
WorkerStore(t) ==
    /\ t \in DOMAIN workers
    /\ workers[t].wpc = "locked"
    /\ lock = t
    /\ results' = [results EXCEPT ![t] = workers[t].result]
    /\ lock' = 0
    /\ workers' = [workers EXCEPT ![t].wpc = "done", ![t].result = <<>>]
    /\ UNCHANGED <<pc, cause, setup, counts, files, colors, secondaries,
                   rtree, count_threads, spawned, outputs>>

\* Mutant: the join does not wait for the jobs.
JoinAtOnce ==
    /\ pc = "join"
    /\ pc' = "merge"
    /\ UNCHANGED <<cause, setup, counts, files, colors, secondaries, rtree,
                   pool, outputs>>

\* threadpool.join() returns (line 363): no job is queued or active.  A job
\* that panicked is over: the pool replaces its thread and goes on.
Join ==
    /\ pc = "join"
    /\ \A t \in DOMAIN workers : workers[t].wpc \in {"done", "panicked"}
    /\ pc' = "merge"
    /\ UNCHANGED <<cause, setup, counts, files, colors, secondaries, rtree,
                   pool, outputs>>

\* ------------------------------------------------------- merge and writing

RECURSIVE Appended(_, _, _)
\* outputs[output].1 after the loops of lines 366-370 have run over the
\* first upto entries of the table: each entry's vector for this output, if
\* it has one, appended in the order of the table.
Appended(table, output, upto) ==
    IF upto = 0 THEN <<>>
    ELSE Appended(table, output, upto - 1) \o
         (IF output + 1 \in DOMAIN table[upto] THEN table[upto][output + 1]
          ELSE <<>>)

\* lines 366-370
Merge ==
    /\ pc = "merge"
    /\ outputs' = [c \in DOMAIN outputs |->
                      outputs[c] \o Appended(results, c - 1, Len(results))]
    /\ results' = <<>>
    /\ pc' = "forward"
    /\ UNCHANGED <<cause, setup, counts, files, colors, secondaries, rtree,
                   count_threads, spawned, workers, lock>>

\* Mutant: every output transformed.
RequiresForwardAll(output) == TRUE

\* The outputs (from 0) line 373 and the loop of lines 374-376 transform:
\* outputs[0] and (1..outputs.len()).step_by(2).
RequiresForward(output) == output = 0 \/ output % 2 = 1

\* lines 373-376
ApplyForward ==
    /\ pc = "forward"
    /\ outputs' = [c \in DOMAIN outputs |->
                      IF RequiresForward(c - 1) THEN TransformForward(outputs[c])
                      ELSE outputs[c]]
    /\ pc' = "write"
    /\ UNCHANGED <<cause, setup, counts, files, colors, secondaries, rtree,
                   pool>>

\* The next file the loop of line 379 writes (0 when all are written).
NextToWrite ==
    IF \E c \in DOMAIN files : files[c] = "created"
    THEN CHOOSE c \in DOMAIN files :
            files[c] = "created" /\ \A b \in 1 .. c - 1 : files[b] # "created"
    ELSE 0

\* One iteration of the loop of lines 379-414: the header and the colours
\* are written, or a write fails and the run errors out.
WriteOutput ==
    /\ pc = "write"
    /\ NextToWrite # 0
    /\ \/ /\ files' = [files EXCEPT ![NextToWrite] = "partial"]
          /\ Fail("io")
       \/ /\ files' = [files EXCEPT ![NextToWrite] = "written"]
          /\ pc' = IF NextToWrite = Len(files) THEN "exit" ELSE "write"
          /\ UNCHANGED cause
    /\ UNCHANGED <<setup, counts, colors, secondaries, rtree, pool, outputs>>

\* ----------------------------------------------------------- specification

Worker(t) ==
    \/ WorkerMap(t)
    \/ WorkerLock(t)
    \/ WorkerStore(t)

Next ==
    \/ ParseArguments
    \/ ComputeCounts
    \/ PrepareTransforms
    \/ CreateOutput
    \/ NormalizePrimaries
    \/ GenerateGrid
    \/ MoveToXYZ
    \/ GenerateSecondaries
    \/ BulkLoad
    \/ Execute
    \/ \E t \in 1 .. MaxThreads : Worker(t)
    \/ Join
    \/ Merge
    \/ ApplyForward
    \/ WriteOutput

Spec == Init /\ [][Next]_vars

\* The steps of the main thread.
MainThread ==
    \/ ParseArguments
    \/ ComputeCounts
    \/ PrepareTransforms
    \/ CreateOutput
    \/ NormalizePrimaries
    \/ GenerateGrid
    \/ MoveToXYZ
    \/ GenerateSecondaries
    \/ BulkLoad
    \/ Execute
    \/ Join
    \/ Merge
    \/ ApplyForward
    \/ WriteOutput

\* The program under fair scheduling: the main thread and every job of the
\* pool go on running while they can take a step.  A job waits for the
\* mutex only while another job, which releases it in its next step, holds
\* it.
FairSpec ==
    /\ Spec
    /\ WF_vars(MainThread)
    /\ \A t \in 1 .. MaxThreads : WF_vars(Worker(t))

\* ------------------------------------------------------------ slicing runs

\* The grid-mapping phase alone, on a grid of any length (not only a cube)
\* and a pool of up to MaxPool workers: the state when the last job has
\* been handed to the pool, for one primary at resolution 2 and no ink
\* limit.
InitSlices ==
    /\ NoVectors
    /\ pc = "join"
    /\ cause = ""
    /\ profile = "Some"
    /\ path_output = "Some"
    /\ argument = ""
    /\ taken = <<>>
    /\ nprim = 1
    /\ size = 2
    /\ target = 2
    /\ inklimit = INFINITY
    /\ count_colors_lut = 8
    /\ resolution = 2
    /\ count_secondaries = 2
    /\ files = [c \in 1 .. CountOutputs(1) |-> "created"]
    /\ primaries = TransformReverse([i \in 1 .. 1 |-> Color("primary", i, <<>>)])
    /\ \E len \in 0 .. MaxGrid :
          colors_lut = TransformReverse([k \in 1 .. len |-> GridColor(k - 1, 2)])
    /\ white = TransformReverse(<<Color("white", 0, <<>>)>>)[1]
    /\ secondaries = <<>>
    /\ rtree = Secondaries(2, 1, 2, INFINITY)
    /\ count_threads \in 1 .. MaxPool
    /\ spawned = count_threads
    /\ workers = [t \in 1 .. count_threads |-> [NoWorker EXCEPT !.wpc = "queued"]]
    /\ results = [t \in 1 .. count_threads |-> <<>>]
    /\ lock = 0
    /\ outputs = [c \in 1 .. CountOutputs(1) |-> <<>>]

NextSlices ==
    \/ \E t \in 1 .. MaxPool : Worker(t)
    \/ Join
    \/ Merge

SpecSlices == InitSlices /\ [][NextSlices]_vars

\* ----------------------------------------------------------- argument runs

\* The argument loop alone, on every command line over Tokens.
NextArguments ==
    \/ ParseOption
    \/ CheckMandatory

SpecArguments == Init /\ [][NextArguments]_vars

\* ------------------------------------------------------------------ Vector3

\* The largest numerator of the components of the vector runs.
MaxComponent == 1

\* The f32 values of the vector runs: NaN, the infinities and the integers
\* up to MaxComponent either side of 0.
Floats == {FDiv(n, d) : n \in -MaxComponent .. MaxComponent, d \in 0 .. 1}

\* a * b: the product of the fractions; an infinity keeps its sign, and
\* infinity times 0 is NaN
FMul(a, b) ==
    LET n == a[1] * b[1]
        d == a[2] * b[2]
    IN IF IsNaN(a) \/ IsNaN(b) THEN NaN
       ELSE IF d = 0 THEN <<(IF n > 0 THEN 1 ELSE IF n < 0 THEN -1 ELSE 0), 0>>
       ELSE <<n, d>>

\* Mutant: the components multiplied from the last to the first.
MulAssignReversed(self, other) == [k \in 1 .. 3 |-> FMul(other, self[4 - k])]

\* impl MulAssign<f32> for Vector3: *self after self *= other
MulAssign(self, other) == [k \in 1 .. 3 |-> FMul(other, self[k])]

\* impl Mul<f32> for Vector3: self * multiplicand
MulVectorScalar(self, multiplicand) ==
    LET multiplier == self
    IN MulAssign(multiplier, multiplicand)

\* impl Mul<Vector3> for f32: self * multiplicand
MulScalarVector(self, multiplicand) ==
    LET copy == multiplicand
    IN MulAssign(copy, self)

\* vector * scalar is evaluated
EvaluateVectorScalar ==
    /\ vector # <<>>
    /\ product_vs = <<>>
    /\ product_vs' = MulVectorScalar(vector, scalar)
    /\ UNCHANGED <<pc, cause, nprim, size, target, inklimit, command_line,
                   counts, files, colors, secondaries, rtree, pool, outputs,
                   scalar, vector, product_sv>>

\* scalar * vector is evaluated
EvaluateScalarVector ==
    /\ vector # <<>>
    /\ product_sv = <<>>
    /\ product_sv' = MulScalarVector(scalar, vector)
    /\ UNCHANGED <<pc, cause, nprim, size, target, inklimit, command_line,
                   counts, files, colors, secondaries, rtree, pool, outputs,
                   scalar, vector, product_vs>>

\* A scalar and a vector of the bounded values, neither product evaluated.
InitVectors ==
    /\ pc = "parse"
    /\ cause = ""
    /\ profile = "None"
    /\ path_output = "None"
    /\ argument = ""
    /\ taken = <<>>
    /\ nprim = 0
    /\ size = SIZE_DEFAULT
    /\ target = TARGET_DEFAULT
    /\ inklimit = INKLIMIT_DEFAULT
    /\ count_colors_lut = 0
    /\ resolution = 0
    /\ count_secondaries = 0
    /\ files = <<>>
    /\ primaries = <<>>
    /\ colors_lut = <<>>
    /\ white = Color("none", 0, <<>>)
    /\ secondaries = <<>>
    /\ rtree = <<>>
    /\ count_threads = 0
    /\ spawned = 0
    /\ workers = <<>>
    /\ results = <<>>
    /\ lock = 0
    /\ outputs = <<>>
    /\ scalar \in Floats
    /\ vector \in [1 .. 3 -> Floats]
    /\ product_sv = <<>>
    /\ product_vs = <<>>

NextVectors ==
    \/ EvaluateVectorScalar
    \/ EvaluateScalarVector

SpecVectors == InitVectors /\ [][NextVectors]_vars

\* ------------------------------------------------------------------ claims

\* The grid-mapping phase is over and its results are merged (a run that a
\* version or help option ended has created no file).
Merged ==
    \/ pc \in {"forward", "write"}
    \/ pc = "exit" /\ files # <<>>
    \/ pc = "failed" /\ cause = "io"

\* The main thread is past the bulk load of the R-tree.
Loaded == pc \in {"execute", "join", "merge"} \/ Merged

\* The workers that have run the loop over their slice to its end.
Mapped == {t \in DOMAIN workers : workers[t].wpc \in {"mapped", "locked", "done"}}

RECURSIVE SumFractions(_)
\* The fractions of a candidate added up in the order of the primaries.
SumFractions(fs) ==
    IF fs = <<>> THEN FDiv(0, 1)
    ELSE FAdd(SumFractions(SubSeq(fs, 1, Len(fs) - 1)), fs[Len(fs)])

\* C1: after the merge each of the 1 + 2N output channels has exactly L
\* entries, and its i-th entry is the value computed for the i-th grid cell
\* in canonical order: the merged output is the output of one sequential
\* pass over the grid, whatever the worker count and the order of the
\* workers.
C1_MergedInGridOrder ==
    pc = "forward" =>
        \A c \in 1 .. CountOutputs(nprim) :
            /\ c \in DOMAIN outputs
            /\ Len(outputs[c]) = Len(colors_lut)
            /\ outputs[c] =
                   MapSlice(rtree, colors_lut, 0, Len(colors_lut), nprim)[c]

\* C2: every candidate the generator produces has exactly N blend fractions
\* and their sum does not exceed the ink limit.
C2_CandidatesWithinInkLimit ==
    \A candidates \in {secondaries, rtree} :
        \A j \in DOMAIN candidates :
            /\ Len(candidates[j].components) = nprim
            /\ ~FGt(SumFractions(candidates[j].components), inklimit)

\* C2 witness: candidates were generated under a finite limit that made the
\* generator abandon some of the combinations and keep several.
C2_Witness ==
    /\ pc = "bulk_load"
    /\ nprim = 2
    /\ inklimit # INFINITY
    /\ Len(secondaries) > 1
    /\ Len(secondaries) < count_secondaries

\* C3: the slices [t*L/W, (t+1)*L/W) are contiguous, pairwise disjoint,
\* cover exactly 0..L-1 and differ in length by at most 1; a worker looks up
\* the indices of its own slice and no other, so no index is processed
\* twice and none is left out.
C3_SlicesPartitionGrid ==
    /\ \A t \in Mapped :
          /\ 0 <= workers[t].start
          /\ workers[t].start <= workers[t].end
          /\ workers[t].end <= Len(colors_lut)
          /\ t = 1 => workers[t].start = 0
          /\ t = count_threads => workers[t].end = Len(colors_lut)
          /\ workers[t].looked =
                 [k \in 1 .. workers[t].end - workers[t].start |->
                     workers[t].start + k - 1]
    /\ \A t \in Mapped, u \in Mapped :
          /\ u = t + 1 => workers[t].end = workers[u].start
          /\ (workers[t].end - workers[t].start)
                 - (workers[u].end - workers[u].start) \in {-1, 0, 1}
          /\ t # u =>
                 \A a \in DOMAIN workers[t].looked, b \in DOMAIN workers[u].looked :
                     workers[t].looked[a] # workers[u].looked[b]
    /\ Mapped = DOMAIN workers =>
          \A i \in 0 .. Len(colors_lut) - 1 :
              \E t \in Mapped :
                  \E a \in DOMAIN workers[t].looked : workers[t].looked[a] = i

\* C3 witness: every worker of a pool of at least three has mapped its
\* slice, the slices are not all of one length and none is empty.
C3_Witness ==
    /\ count_threads >= 3
    /\ Mapped = DOMAIN workers
    /\ \A t \in Mapped : workers[t].end > workers[t].start
    /\ \E t \in Mapped, u \in Mapped :
          workers[t].end - workers[t].start # workers[u].end - workers[u].start

\* C4: when the candidate set is empty the program fails before any worker
\* of the grid-mapping phase is launched; no worker discovers the empty set
\* in a per-cell lookup.
C4_EmptySetFailsBeforeWorkers ==
    /\ (Loaded /\ rtree = <<>>) => spawned = 0
    /\ \A t \in DOMAIN workers : workers[t].wpc # "panicked"

\* The vectors a worker pushed for its cells agree with one candidate each.
FromOneCandidate(result) ==
    result # <<>> =>
        \A k \in DOMAIN result[1] :
            /\ \E j \in DOMAIN rtree :
                  /\ rtree[j].secondary = result[1][k]
                  /\ rtree[j].components = result[1][k].comps
            /\ \A i \in 0 .. nprim - 1 :
                  LET fraction == result[1][k].comps[i + 1]
                  IN /\ result[2 * i + 2][k] =
                            [kind |-> "blend", idx |-> i, comps |-> <<fraction>>,
                             rev |-> 0, fwd |-> 0]
                     /\ result[2 * i + 3][k] =
                            [kind |-> "mask", idx |-> 0,
                             comps |-> <<fraction, fraction, fraction>>,
                             rev |-> 0, fwd |-> 0]

\* C5: for every grid cell and every primary i, the entry pushed on output
\* 2i+1 is fraction_i * primary_i + (1 - fraction_i) * white and the entry
\* pushed on output 2i+2 is (fraction_i, fraction_i, fraction_i), fraction_i
\* being the i-th blend fraction of the candidate whose mixed colour is the
\* cell's entry of output 0.
C5_CellFromOneCandidate ==
    /\ \A t \in DOMAIN workers : FromOneCandidate(workers[t].result)
    /\ \A t \in DOMAIN results : FromOneCandidate(results[t])

\* C5 witness: with two primaries, a worker has stored a slice in which a
\* cell is matched to a candidate whose two fractions differ.
C5_Witness ==
    /\ nprim = 2
    /\ \E t \in DOMAIN results :
          /\ results[t] # <<>>
          /\ \E k \in DOMAIN results[t][1] :
                results[t][1][k].comps[1] # results[t][1][k].comps[2]

\* C6 as claimed: every run that ends in a fatal error has launched no
\* worker, and no output file has been created or partially written.
C6_FatalBeforeWorkersNoFiles ==
    pc = "failed" => (spawned = 0 /\ workers = <<>> /\ files = <<>>)

\* C6 as amended: a fatal error is raised either before any worker is
\* launched or, as an I/O error, while the output files are written after
\* the merge.  An error raised before the first File::create leaves no
\* output file; a failed File::create leaves the files created before it; a
\* failed write leaves the files written before it, one partially written
\* file and the empty files after it.
C6_FatalPoints ==
    pc = "failed" =>
        \/ /\ cause \in {"arguments", "overflow", "transform", "file_stem"}
           /\ spawned = 0
           /\ workers = <<>>
           /\ files = <<>>
        \/ /\ cause = "create"
           /\ spawned = 0
           /\ workers = <<>>
           /\ Len(files) < CountOutputs(nprim)
           /\ \A c \in DOMAIN files : files[c] = "created"
        \/ /\ cause = "io"
           /\ spawned = count_threads
           /\ \A t \in DOMAIN workers : workers[t].wpc \in {"done", "panicked"}
           /\ results = <<>>
           /\ Len(files) = CountOutputs(nprim)
           /\ \E c \in DOMAIN files :
                 /\ files[c] = "partial"
                 /\ \A b \in 1 .. c - 1 : files[b] = "written"
                 /\ \A b \in c + 1 .. Len(files) : files[b] = "created"

\* C6 witness: a run has failed on a write to its second output file, after
\* its workers stored their slices.
C6_Witness ==
    /\ pc = "failed"
    /\ cause = "io"
    /\ files[2] = "partial"
    /\ \A t \in DOMAIN workers : workers[t].wpc = "done"

\* The transform counts of an output vector are all fwd.
ForwardCount(colors_output, fwd) ==
    \A k \in DOMAIN colors_output : colors_output[k].fwd = fwd

\* The to-XYZ transform has been applied exactly times times to the
\* primaries, the white point and the grid.
ReverseCount(times) ==
    /\ \A i \in DOMAIN primaries : primaries[i].rev = times
    /\ white.kind = "white" => white.rev = times
    /\ \A k \in DOMAIN colors_lut : colors_lut[k].rev = times

\* C7 as claimed: before serialization the from-XYZ transform has been
\* applied exactly once to every output channel, the mask channels
\* included, and the to-XYZ transform exactly once to the primaries, the
\* white point and the grid before any candidate is generated.
C7_EveryChannelForwardOnce ==
    /\ pc \in {"write", "exit"} =>
          \A c \in DOMAIN outputs : ForwardCount(outputs[c], 1)
    /\ (secondaries # <<>> \/ rtree # <<>>) => ReverseCount(1)

\* C7 as amended: before serialization the from-XYZ transform has been
\* applied exactly once to the secondary channel and to the blend-colour
\* channel of every primary, and never to a mask channel; the to-XYZ
\* transform is applied exactly once to the primaries, the white point and
\* the grid, before any candidate is generated or looked up.
C7_ForwardOnColourChannelsOnly ==
    /\ Merged /\ pc # "forward" =>
          \A c \in DOMAIN outputs :
              ForwardCount(outputs[c], IF c = 1 \/ c % 2 = 0 THEN 1 ELSE 0)
    /\ ~Merged \/ pc = "forward" =>
          \A c \in DOMAIN outputs : ForwardCount(outputs[c], 0)
    /\ pc \in {"counts", "transforms", "create", "normalize", "grid", "reverse"} =>
          /\ ReverseCount(0)
          /\ secondaries = <<>>
          /\ rtree = <<>>
    /\ pc \in {"secondaries", "bulk_load"} \/ Loaded => ReverseCount(1)

\* C7 witness: a run with two primaries has written its files, every
\* output vector holding the 8 cells of the grid.
C7_Witness ==
    /\ pc = "exit"
    /\ nprim = 2
    /\ \A c \in DOMAIN outputs : Len(outputs[c]) = 8
    /\ Len(outputs) = 5

\* One primary and an ink limit of 0, the candidates just generated.
OnePrimaryAtLimitZero ==
    /\ pc = "bulk_load"
    /\ nprim = 1
    /\ FEq(inklimit, FDiv(0, 1))

\* C8 as claimed: with one primary and an ink limit of 0 the generator
\* yields exactly 2 candidates, of fraction 0 and of fraction 1.
C8_TwoCandidatesAtLimitZero ==
    OnePrimaryAtLimitZero =>
        /\ Len(secondaries) = 2
        /\ FEq(secondaries[1].components[1], FDiv(0, 1))
        /\ FEq(secondaries[2].components[1], FDiv(1, 1))

\* C8 as amended: with one primary and an ink limit of 0 the generator
\* yields exactly 1 candidate, the combination of counter value 0, whose
\* fraction is 0 / (resolution - 1); every other combination, the one of
\* fraction 1 included, exceeds the limit and is abandoned.
C8_OneCandidateAtLimitZero ==
    OnePrimaryAtLimitZero =>
        /\ Len(secondaries) = 1
        /\ secondaries[1].components = << <<0, resolution - 1>> >>

\* C8 witness: one primary, limit 0, and a resolution of at least 2, so
\* that the combination of fraction 1 was enumerated.
C8_Witness ==
    /\ OnePrimaryAtLimitZero
    /\ resolution >= 2
    /\ count_secondaries = resolution

\* C9: with 1 primary, grid size 2 and target 1 the grid has 8 cells, the
\* candidate set holds exactly one candidate, whose single blend fraction
\* is 1, and every cell is mapped to it.
C9_SingleFullBlendCandidate ==
    (pc = "forward" /\ nprim = 1 /\ size = 2 /\ target = 1) =>
        /\ Len(colors_lut) = 8
        /\ Len(rtree) = 1
        /\ \A k \in 1 .. 8 : outputs[1][k] = rtree[1].secondary
        /\ FEq(rtree[1].components[1], FDiv(1, 1))

\* C10: the resolution R satisfies R^N >= T and (R-1)^N < T, and the
\* enumeration counter runs over exactly R^N combinations.
C10_ResolutionIsLeastRoot ==
    resolution # 0 =>
        /\ resolution ^ nprim >= target
        /\ (resolution - 1) ^ nprim < target
        /\ count_secondaries = resolution ^ nprim

\* The last iteration of the argument loop matched a version or help option.
LastIsInfo ==
    ToAsciiLowercase(argument) \in {"-v", "--version", "-h", "--help", "-?"}

\* The last iteration of the argument loop met one of the defects of C11:
\* an unknown option, an option the command line ends on before its
\* arguments are complete, a grid size below 2, a target count below 1 or
\* an ink limit below 0.
LastIsDefective ==
    LET option == ToAsciiLowercase(argument)
        complete == \A k \in DOMAIN taken : ParseF32(taken[k]).ok
    IN \/ option \notin
             {"-v", "--version", "-h", "--help", "-?", "-p", "--profile",
              "-o", "--output", "-c", "--color", "-s", "--size", "-t",
              "--target", "-l", "--limit"}
       \/ option \in {"-p", "--profile", "-o", "--output", "-s", "--size",
                      "-t", "--target", "-l", "--limit"} /\ taken = <<>>
       \/ option \in {"-c", "--color"} /\ Len(taken) < 3 /\ complete
       \/ /\ option \in {"-s", "--size"}
          /\ taken # <<>>
          /\ ParseUsize(taken[1]).ok
          /\ ParseUsize(taken[1]).value < 2
       \/ /\ option \in {"-t", "--target"}
          /\ taken # <<>>
          /\ ParseUsize(taken[1]).ok
          /\ ParseUsize(taken[1]).value < 1
       \/ /\ option \in {"-l", "--limit"}
          /\ taken # <<>>
          /\ ParseF32(taken[1]).ok
          /\ FLt(ParseF32(taken[1]).value, FDiv(0, 1))

\* Nothing of candidate generation or of the parallel phase has happened.
NothingStarted ==
    /\ resolution = 0
    /\ files = <<>>
    /\ secondaries = <<>>
    /\ rtree = <<>>
    /\ spawned = 0
    /\ workers = <<>>

\* C11: an iteration of the argument loop that meets an unknown option, an
\* option without its argument(s), a grid size < 2, a target count < 1 or
\* an ink limit < 0 ends the run with a failure, and so does the end of the
\* command line when the profile, the output path or every primary is
\* missing: a run that goes past argument parsing has all three and a grid
\* size >= 2, a target >= 1 and an ink limit not below 0.  A failed run has
\* started neither candidate generation nor the parallel phase.  A version
\* or help option ends the run successfully as soon as it is parsed,
\* whatever is missing.
C11_InvalidArgumentsFail ==
    /\ (argument # "" /\ LastIsDefective) =>
          (pc = "failed" /\ cause = "arguments")
    /\ (argument # "" /\ LastIsInfo) => (pc = "exit" /\ cause = "")
    /\ pc \notin {"parse", "failed", "exit"} =>
          /\ profile # "None"
          /\ path_output # "None"
          /\ nprim >= 1
          /\ Len(primaries) = nprim
          /\ size >= 2
          /\ target >= 1
          /\ ~FLt(inklimit, FDiv(0, 1))
    /\ (pc = "failed" /\ cause = "arguments") => NothingStarted
    /\ (pc = "exit" /\ LastIsInfo) => NothingStarted

\* C11 witness: a run that gave the profile, the output path and a primary
\* has failed on a grid size of 0.
C11_Witness ==
    /\ pc = "failed"
    /\ argument = "-s"
    /\ taken = <<"0">>
    /\ profile = "Some"
    /\ path_output = "Some"
    /\ nprim = 1

\* C12: scalar multiplication of a Vector3 is commutative and keeps the
\* order of the components: s * v and v * s are the same vector, and its
\* k-th component is s times the k-th component of v for k = 0, 1, 2.
C12_ScalarMultiplicationCommutes ==
    /\ product_sv # <<>> =>
          \A k \in 1 .. 3 : product_sv[k] = FMul(scalar, vector[k])
    /\ product_vs # <<>> =>
          \A k \in 1 .. 3 : product_vs[k] = FMul(scalar, vector[k])
    /\ (product_sv # <<>> /\ product_vs # <<>>) => product_sv = product_vs

\* C12 witness: both products of a non-zero finite scalar and a vector of
\* three different finite components have been evaluated.
C12_Witness ==
    /\ product_sv # <<>>
    /\ product_vs # <<>>
    /\ scalar = FDiv(-1, 1)
    /\ vector = <<FDiv(1, 1), FDiv(0, 1), FDiv(-1, 1)>>

\* Slot t of the result table holds the vectors of the whole slice of
\* worker t.
SlotWritten(t) ==
    /\ Len(results[t]) = CountOutputs(nprim)
    /\ \A c \in DOMAIN results[t] :
          Len(results[t][c]) = workers[t].end - workers[t].start

\* The table while the workers run and the merge has not emptied it: a slot
\* is as it was made, or it holds the whole slice of its own worker, which
\* is done; the workers past results.lock() are at most the one that holds
\* the lock; the merge finds every slot written.
SlotsWhole ==
    /\ \A t \in DOMAIN results :
          results[t] # <<>> => (workers[t].wpc = "done" /\ SlotWritten(t))
    /\ \A t \in DOMAIN workers :
          workers[t].wpc = "locked" <=> lock = t
    /\ pc = "merge" => \A t \in DOMAIN results : results[t] # <<>>

\* A step that changes slot t is the one write of worker t: it holds the
\* lock, the loop over its slice is over, the slot was never written, and
\* no other slot changes.
SlotWrites ==
    \A t \in DOMAIN results \cap DOMAIN results' :
        results'[t] # results[t] =>
            /\ lock = t
            /\ workers[t].wpc = "locked"
            /\ workers'[t].wpc = "done"
            /\ results[t] = <<>>
            /\ results'[t] = workers[t].result
            /\ \A u \in DOMAIN results \ {t} : results'[u] = results[u]

\* C13: each worker writes the shared result table exactly once, into the
\* slot of its own index and after the loop over its slice; no slot is
\* written by another worker or twice; at most one worker holds the lock;
\* the merge reads the table only when every slot has been written, so no
\* partial slice result is visible to another worker or to the merge.
C13_SlotsWrittenOnceBeforeMerge == [](SlotsWhole) /\ [][SlotWrites]_vars

\* The order of the phases in a state: a worker that has begun its loop
\* finds the candidates generated and loaded into the index; the merge and
\* all that follows it find every worker over (a job that panicked is over);
\* an output file is written to only after the merge.
PhasesInOrder ==
    /\ (\E t \in DOMAIN workers : workers[t].wpc \notin {"none", "queued"}) =>
          /\ Loaded
          /\ secondaries = <<>>
    /\ (pc = "merge" \/ Merged) =>
          /\ spawned = count_threads
          /\ \A t \in DOMAIN workers : workers[t].wpc \in {"done", "panicked"}
    /\ (\E c \in DOMAIN files : files[c] # "created") =>
          /\ Merged
          /\ pc # "forward"
          /\ results = <<>>

\* Once a worker has been launched, no step changes the index, the
\* primaries, the white point or the grid.
SharedReadOnly ==
    spawned > 0 =>
        /\ rtree' = rtree
        /\ primaries' = primaries
        /\ white' = white
        /\ colors_lut' = colors_lut

\* C14: candidate generation and the bulk load of the index are complete
\* before the first nearest-neighbour lookup of any worker; the index, the
\* primaries, the white point and the grid are not modified once the first
\* worker has been launched; the merge begins only after all W workers are
\* over; the first output record is written only after the merge.
C14_PhasesInFixedOrder == [](PhasesInOrder) /\ [][SharedReadOnly]_vars

\* C14 witness: two workers have mapped and stored their slices, the merge
\* has run and the first output file is written.
C14_Witness ==
    /\ pc = "write"
    /\ count_threads = 2
    /\ \A t \in DOMAIN workers : workers[t].wpc = "done"
    /\ files[1] = "written"
    /\ Len(outputs[1]) = 8

\* C15: under fair scheduling the parallel phase terminates: every worker
\* handed its job eventually has acquired the result lock, stored its slice
\* result and released the lock; the join returns, and the run goes through
\* the merge to the writing of the files; no interleaving deadlocks.
C15_ParallelPhaseTerminates ==
    /\ \A t \in 1 .. MaxThreads :
          (t \in DOMAIN workers /\ workers[t].wpc = "queued")
              ~> (/\ t \in DOMAIN workers
                  /\ t \in DOMAIN results
                  /\ workers[t].wpc = "done"
                  /\ results[t] # <<>>
                  /\ lock # t)
    /\ (pc = "join") ~> (pc = "write")

\* The fractions of the combination of counter value number: digit i of the
\* counter in radix r, least significant first, divided by r - 1, for
\* primary i.
Digits(number, n, r) ==
    [i \in 1 .. n |-> FDiv((number \div (r ^ (i - 1))) % r, r - 1)]

\* The post-filter: the combinations of counter values 0 .. r^n - 1 whose
\* total fraction sum is <= limit, in increasing counter order.
PostFiltered(n, r, limit) ==
    SelectSeq([k \in 1 .. r ^ n |-> Digits(k - 1, n, r)],
              LAMBDA fs : FLt(SumFractions(fs), limit)
                              \/ FEq(SumFractions(fs), limit))

\* C16: the short-circuit pruning of the generator gives the result of a
\* post-filter: for resolution R >= 2 the fraction vectors of the surviving
\* candidates are exactly the mixed-radix combinations of 0 .. R^N - 1 whose
\* total fraction sum is <= the ink limit, each once and in increasing
\* counter order; with an unbounded limit all R^N combinations survive.
C16_PruningIsPostFilter ==
    (pc = "bulk_load" /\ resolution >= 2) =>
        /\ [j \in DOMAIN secondaries |-> secondaries[j].components] =
               PostFiltered(nprim, resolution, inklimit)
        /\ inklimit = INFINITY => Len(secondaries) = resolution ^ nprim

\* C17: the candidate set is never empty: the combination of counter value
\* 0, all of whose fractions are zero (its mixed colour is the white
\* point), survives the pruning, so the index the workers look up holds a
\* candidate and no worker aborts on an empty index.
C17_CandidateSetNeverEmpty ==
    /\ pc = "bulk_load" =>
          /\ secondaries # <<>>
          /\ Len(secondaries[1].components) = nprim
          /\ \A i \in 1 .. nprim :
                FEq(secondaries[1].components[i], FDiv(0, 1))
    /\ Loaded => rtree # <<>>
    /\ \A t \in DOMAIN workers :
          /\ workers[t].wpc # "panicked"
          /\ \A k \in DOMAIN workers[t].looked :
                NearestNeighbor(rtree, colors_lut[workers[t].looked[k] + 1]) # 0

============================================================================
